---- MODULE Spec2Model ----
(***************************************************************************)
(* CuraEngine plugin slot front-end (include/plugins/slotproxy.h).         *)
(*                                                                         *)
(* SlotProxy holds std::optional<PluginProxy> plugin_.  The default        *)
(* constructor leaves it empty, the channel constructor fills it, and      *)
(* operator() forwards to the held PluginProxy when has_value() and to     *)
(* the Default callable otherwise.  Worker threads call operator()         *)
(* concurrently; the class holds no lock and no atomic, so the reads of    *)
(* operator() interleave freely with a replacement of the front-end.       *)
(*                                                                         *)
(* PluginProxy, the validator and the converters (plugins/pluginproxy.h,   *)
(* plugins/validator.h, plugins/converters.h) are included by slotproxy.h  *)
(* but are not part of the sources at hand: they are modelled from the     *)
(* written specification (sections 4.2 and 4.3).                           *)
(***************************************************************************)
EXTENDS Integers, FiniteSets, Sequences, TLC

\* Bound: number of bind attempts explored.
MaxBinds == 2

\* Bound: number of plugin processes that die during the run.
MaxKills == 1

\* Worker threads that call the slot (spec section 5: calls come from several threads).
Threads == {"t1", "t2"}

\* Native argument tuples handed to the slot ("region=R").
Args == {"R1", "R2"}

\* Channels to plugin processes.  "C" and "C2" advertise a compatible contract,
\* "Cold" advertises an incompatible one.
Channels == {"C", "C2", "Cold"}

Compatible(c) == c \in {"C", "C2"}

VARIABLES
    plugin_,      \* std::optional<PluginProxy>: {} is nullopt, {client} holds a client
    alive,        \* the channels whose plugin process still answers
    attempts,     \* number of bind attempts so far
    validations,  \* number of Capability Validator runs so far
    lastBind,     \* what the last bind/unbind did and what its caller was told
    inv,          \* per thread: the position and the observations of its operator() call
    prog,         \* Progress: accumulated_times, total_timing and the last estimates
    layers,       \* Progress: first_skipped_layer and what messageProgressLayer did
    app           \* Application: communication_, thread_pool_ and the position of run

vars == <<plugin_, alive, attempts, validations, lastBind, inv, prog, layers, app>>

\* The state outside the plugin slot.
others == <<prog, layers, app>>

----------------------------------------------------------------------------
(* Results of a call *)

\* The Default template argument: a fixed callable of the native arguments.
Default(a) == [kind |-> "native", by |-> "Default", arg |-> a]

\* The native value decoded from the plugin's response to the request for a.
Remote(ch, a) == [kind |-> "native", by |-> ch, arg |-> a]

\* The typed error of a call whose transport failed.
RpcError(ch, a) == [kind |-> "RpcError", by |-> ch, arg |-> a]

\* std::bad_optional_access thrown by optional::value() on an empty optional.
BadOptionalAccess(a) == [kind |-> "bad_optional_access", by |-> "none", arg |-> a]

\* The call ran on a destroyed PluginProxy and did not return a value.
Undefined(a) == [kind |-> "undefined", by |-> "none", arg |-> a]

NoResult == [kind |-> "none", by |-> "none", arg |-> "none"]

----------------------------------------------------------------------------
(* Remote Call Client and Capability Validator (spec 4.2, 4.3) *)

\* validate(channel) -> bool: the plugin reached over the channel advertises a
\* compatible contract.  An unreachable channel advertises nothing.
Validate(ch, al) == ch \in al /\ Compatible(ch)

\* Construction of a Remote Call Client: runs the validator once and caches the
\* outcome; construction fails when the outcome is negative.
PluginProxyCtor(ch, al, id) ==
    LET valid_ == Validate(ch, al)
    IN  [ok |-> valid_,
         client |-> [id |-> id, chan |-> ch, valid |-> valid_],
         runs |-> 1]

\* Native arguments beyond Args that the converters cannot carry: "Rnowire"
\* has no wire form, the plugin's answer to "Rnodecode" has no native form.
ArgsConv == Args \cup {"Rnowire", "Rnodecode"}

\* toWire is defined on the argument.
Representable(a) == a # "Rnowire"

\* fromWire is defined on the plugin's response to the request for a.
Decodable(a) == a # "Rnodecode"

\* The error of a value that cannot cross the process boundary.
ConversionError(a) == [kind |-> "ConversionError", by |-> "none", arg |-> a]

\* call(args): convert the arguments, exchange request and response over the
\* client's channel, convert the response.
PluginProxyCall(client, a, al) ==
    IF ~ Representable(a) THEN ConversionError(a)
    ELSE IF client.chan \notin al THEN RpcError(client.chan, a)
    ELSE IF ~ Decodable(a) THEN ConversionError(a)
    ELSE Remote(client.chan, a)

\* How the exchange of a call ended, as the caller can tell from the result.
Transport(r) ==
    CASE r.kind = "RpcError" -> "failed"
      [] r.kind = "ConversionError" -> "conversion"
      [] OTHER -> "ok"

----------------------------------------------------------------------------
(* std::optional *)

has_value(o) == o # {}

value(o) == CHOOSE c \in o : TRUE

----------------------------------------------------------------------------
(* Progress (progress/Progress.h, progress/Progress.cpp) *)

N_PROGRESS_STAGES == 7

\* enum class Stage: START = 0 .. FINISH = 6
Stages == 0 .. (N_PROGRESS_STAGES - 1)

\* Progress::times, in milliseconds (0.0, 5.269, 1.533, 71.811, 51.009, 154.62, 0.1 s)
times == <<0, 5269, 1533, 71811, 51009, 154620, 100>>

\* Bound: stage_progress takes the values k / PSteps, k in 0 .. PSteps.
PSteps == 4

\* No estimate computed yet.
NoEstimate == [valid |-> FALSE, stage |-> 0, k |-> 0, num |-> 0, den |-> 1]

\* The static members as the definitions in Progress.cpp initialise them:
\* accumulated_times = { -1 } (the other elements are zero), total_timing = -1.
ProgressStatic ==
    [accumulated_times |-> <<-1000, 0, 0, 0, 0, 0, 0>>,
     total_timing |-> -1000,
     inited |-> FALSE,
     prev |-> NoEstimate,
     last |-> NoEstimate]

\* The loop of Progress::init from stage on: each element receives the time
\* accumulated before it, then the stage's own time is added.
RECURSIVE InitLoop(_, _, _)
InitLoop(stage, accumulated_time, acc) ==
    IF stage >= N_PROGRESS_STAGES
       THEN [accumulated_times |-> acc, total_timing |-> accumulated_time]
       ELSE InitLoop(stage + 1, accumulated_time + times[stage + 1],
                     [acc EXCEPT ![stage + 1] = accumulated_time])

\* Mutant of InitLoop: the element is written after the stage's time is added.
RECURSIVE InitLoopAfterAdd(_, _, _)
InitLoopAfterAdd(stage, accumulated_time, acc) ==
    IF stage >= N_PROGRESS_STAGES
       THEN [accumulated_times |-> acc, total_timing |-> accumulated_time]
       ELSE InitLoopAfterAdd(stage + 1, accumulated_time + times[stage + 1],
                             [acc EXCEPT ![stage + 1] = accumulated_time + times[stage + 1]])

\* Mutant of ProgressInit.
ProgressInitAfterAdd ==
    /\ LET r == InitLoopAfterAdd(0, 0, prog.accumulated_times)
       IN  prog' = [prog EXCEPT !.accumulated_times = r.accumulated_times,
                                !.total_timing = r.total_timing,
                                !.inited = TRUE,
                                !.prev = NoEstimate, !.last = NoEstimate]
    /\ UNCHANGED <<plugin_, alive, attempts, validations, lastBind, inv, layers, app>>

\* Progress::init()
ProgressInit ==
    /\ LET r == InitLoop(0, 0, prog.accumulated_times)
       IN  prog' = [prog EXCEPT !.accumulated_times = r.accumulated_times,
                                !.total_timing = r.total_timing,
                                !.inited = TRUE,
                                !.prev = NoEstimate, !.last = NoEstimate]
    /\ UNCHANGED <<plugin_, alive, attempts, validations, lastBind, inv, layers, app>>

\* Progress::calcOverallProgress(stage, k / PSteps) as the fraction num / den:
\* (accumulated_times[stage] + stage_progress * times[stage]) / total_timing
calcOverallProgress(stage, k) ==
    [valid |-> TRUE, stage |-> stage, k |-> k,
     num |-> prog.accumulated_times[stage + 1] * PSteps + k * times[stage + 1],
     den |-> prog.total_timing * PSteps]

\* A caller asks for an estimate; the asserts admit 0 <= stage_progress <= 1.
CalcOverallProgress(stage, k) ==
    /\ prog' = [prog EXCEPT !.prev = prog.last,
                            !.last = calcOverallProgress(stage, k)]
    /\ UNCHANGED <<plugin_, alive, attempts, validations, lastBind, inv, layers, app>>

\* Bound: number of messageProgressLayer calls explored.
MaxCalls == 4

\* Bound: layer numbers run from -1 (a raft layer) to MaxLayer.
MaxLayer == 1

\* Bound: layer times run from 0 to MaxTime, in units of 0.05 s.
MaxTime == 3

\* The default skip_threshold = 0.1 s of messageProgressLayer, in units of 0.05 s.
DefaultSkipThreshold == 2

LayerNrs == -1 .. MaxLayer

\* first_skipped_layer{} is empty; nothing was called, sent or logged.
LayersStatic ==
    [first_skipped_layer |-> {},
     hist |-> <<>>,
     sends |-> 0,
     sent |-> <<>>,
     logs |-> <<>>]

IntMax(a, b) == IF a >= b THEN a ELSE b

\* Mutant of MessageProgressLayer: every skipped layer overwrites
\* first_skipped_layer.
MessageProgressLayerOverwrite(layer_nr, total_layers, total_time, skip_threshold) ==
    /\ Len(layers.hist) < MaxCalls
    /\ LET noted == [layers EXCEPT !.hist = Append(@, [layer |-> layer_nr,
                                                       skipped |-> total_time < skip_threshold])]
       IN  IF total_time < skip_threshold
              THEN layers' = [noted EXCEPT !.first_skipped_layer = {layer_nr}]
              ELSE layers' =
                     [noted EXCEPT
                        !.logs = IF has_value(layers.first_skipped_layer)
                                    THEN Append(@, <<value(layers.first_skipped_layer), layer_nr>>)
                                    ELSE @,
                        !.first_skipped_layer = {},
                        !.sends = @ + 1,
                        !.sent = <<5, IntMax(layer_nr, 0) + 1, total_layers>>]
    /\ UNCHANGED <<plugin_, alive, attempts, validations, lastBind, inv, prog, app>>

\* Progress::messageProgressLayer(layer_nr, total_layers, total_time, stages,
\* skip_threshold).  hist notes each call, logs the "Skipped time reporting"
\* lines, sends/sent the messageProgress(Stage::EXPORT, ...) calls.
MessageProgressLayer(layer_nr, total_layers, total_time, skip_threshold) ==
    /\ Len(layers.hist) < MaxCalls
    /\ LET noted == [layers EXCEPT !.hist = Append(@, [layer |-> layer_nr,
                                                       skipped |-> total_time < skip_threshold])]
       IN  IF total_time < skip_threshold
              THEN layers' =
                     [noted EXCEPT
                        !.first_skipped_layer = IF ~ has_value(@) THEN {layer_nr} ELSE @]
              ELSE layers' =
                     [noted EXCEPT
                        !.logs = IF has_value(layers.first_skipped_layer)
                                    THEN Append(@, <<value(layers.first_skipped_layer), layer_nr>>)
                                    ELSE @,
                        !.first_skipped_layer = {},
                        !.sends = @ + 1,
                        !.sent = <<5, IntMax(layer_nr, 0) + 1, total_layers>>]
    /\ UNCHANGED <<plugin_, alive, attempts, validations, lastBind, inv, prog, app>>

----------------------------------------------------------------------------
(* Application (Application.cpp) *)

\* Bound: number of options after "connect <host>" on the command line.
MaxOpts == 2

\* Bound: the numbers given to option -m run from -1 to MaxWorkers.
MaxWorkers == 2

\* Bound: std::thread::hardware_concurrency() returns 0 .. MaxHw.
MaxHw == 2

\* Bound: number of slices the communication channel hands out.
MaxSlices == 2

\* unsigned int has 32 bits; a value is kept as two halves of 16 bits.
Half == 65536

Unsigned(n) == [hi |-> n \div Half, lo |-> n % Half]

\* u - 1 in unsigned arithmetic: 0 - 1 wraps around to the largest value.
UnsignedMinusOne(u) ==
    IF u.lo > 0 THEN [u EXCEPT !.lo = @ - 1]
    ELSE IF u.hi > 0 THEN [hi |-> u.hi - 1, lo |-> Half - 1]
    ELSE [hi |-> Half - 1, lo |-> Half - 1]

ULess(a, b) == a.hi < b.hi \/ (a.hi = b.hi /\ a.lo < b.lo)

\* argv[1] as the engine may be called.
Commands == {"connect", "CONNECT", "slice", "Slice", "help", "HELP", "frobnicate"}

Lower(c) ==
    CASE c \in {"connect", "CONNECT"} -> "connect"
      [] c \in {"slice", "Slice"} -> "slice"
      [] c \in {"help", "HELP"} -> "help"
      [] OTHER -> c

\* 0 when a and b are equal up to case.
stringcasecompare(a, b) == IF Lower(a) = Lower(b) THEN 0 ELSE 1

\* argv[2] of connect: a host, a host with a port, a host with a port that
\* is no number.
Addresses == {"host", "host:port", "host:bad"}

\* The options connect reads: -v, -m<n> and an unknown one.
Options ==
    {[flag |-> "v", n |-> 0], [flag |-> "x", n |-> 0]}
        \cup {[flag |-> "m", n |-> n] : n \in -1 .. MaxWorkers}

RECURSIVE OptionLists(_)
OptionLists(len) ==
    IF len = 0 THEN {<<>>}
    ELSE {Append(o, x) : o \in OptionLists(len - 1), x \in Options}

NoStart == [called |-> FALSE, nworkers |-> 0, hw |-> -1, before |-> {}, pointer |-> 0]

\* The singleton before run: no communication, no thread pool.
ApplicationCtor ==
    [pc |-> "main", arcus |-> FALSE, argc_ |-> 0, cmd |-> "", opts |-> <<>>,
     communication_ |-> "nullptr", thread_pool_ |-> 0, pools |-> {}, created |-> 0,
     status |-> -1, log |-> <<>>, lastStart |-> NoStart, chosen |-> 0]

\* thread_pool_->thread_count()
thread_count(a) == (CHOOSE p \in a.pools : p.id = a.thread_pool_).thread_count

\* Mutant of startThreadPool: the old pool is not deleted.
startThreadPoolLeak(a, nworkers, hw, event) ==
    LET had == a.thread_pool_ # 0
        nthreads == IF nworkers <= 0 THEN UnsignedMinusOne(Unsigned(hw))
                                     ELSE Unsigned(nworkers - 1)
        noted == [a EXCEPT !.log = Append(@, event),
                           !.lastStart = [called |-> TRUE, nworkers |-> nworkers,
                                          hw |-> IF nworkers <= 0 /\ ~ had THEN hw ELSE -1,
                                          before |-> a.pools, pointer |-> a.thread_pool_]]
    IN  IF nworkers <= 0 /\ had THEN noted
        ELSE IF had /\ thread_count(a) = nthreads THEN noted
        ELSE [noted EXCEPT
                !.pools = @ \cup {[id |-> a.created + 1, thread_count |-> nthreads]},
                !.thread_pool_ = a.created + 1,
                !.created = @ + 1]

\* Application::startThreadPool(nworkers), hardware_concurrency() returning
\* hw; lastStart notes the call and the pools before it.
startThreadPool(a, nworkers, hw, event) ==
    LET had == a.thread_pool_ # 0
        nthreads == IF nworkers <= 0 THEN UnsignedMinusOne(Unsigned(hw))
                                     ELSE Unsigned(nworkers - 1)
        noted == [a EXCEPT !.log = Append(@, event),
                           !.lastStart = [called |-> TRUE, nworkers |-> nworkers,
                                          hw |-> IF nworkers <= 0 /\ ~ had THEN hw ELSE -1,
                                          before |-> a.pools, pointer |-> a.thread_pool_]]
    IN  IF nworkers <= 0 /\ had THEN noted
        ELSE IF had /\ thread_count(a) = nthreads THEN noted
        ELSE [noted EXCEPT
                !.pools = {q \in @ : q.id # a.thread_pool_}
                              \cup {[id |-> a.created + 1, thread_count |-> nthreads]},
                !.thread_pool_ = a.created + 1,
                !.created = @ + 1]

\* The default argument of startThreadPool().
DefaultWorkers == 0

\* Application::run up to the test of argc: printLicense, Progress::init,
\* and printHelp with exit(1) when no command was given.
RunBegin(arcus, argc, cmd, opts) ==
    /\ app.pc = "main"
    /\ LET r == InitLoop(0, 0, prog.accumulated_times)
       IN  prog' = [prog EXCEPT !.accumulated_times = r.accumulated_times,
                                !.total_timing = r.total_timing,
                                !.inited = TRUE,
                                !.prev = NoEstimate, !.last = NoEstimate]
    /\ LET begun == [app EXCEPT !.arcus = arcus, !.argc_ = argc, !.cmd = cmd, !.opts = opts,
                                !.log = <<"printLicense", "Progress::init">>]
       IN  IF argc < 2
              THEN app' = [begun EXCEPT !.log = Append(@, "printHelp"),
                                        !.pc = "exit", !.status = 1]
              ELSE app' = [begun EXCEPT !.pc = "command"]
    /\ UNCHANGED <<plugin_, alive, attempts, validations, lastBind, inv, layers>>

\* Application::run: the choice of the command.  connect reads argv_[2],
\* which is the null pointer when argc is 2 (constructing a std::string
\* from it is undefined: the build throws std::logic_error or reads through
\* the null pointer), and std::stoi throws on a port that is no number.
RunCommand(addr) ==
    /\ app.pc = "command"
    /\ IF app.arcus /\ stringcasecompare(app.cmd, "connect") = 0
          THEN IF app.argc_ < 3
                  THEN \E how \in {"std::logic_error", "SIGSEGV"} :
                          app' = [app EXCEPT !.pc = "abort", !.log = Append(@, how)]
                  ELSE IF addr = "host:bad"
                          THEN app' = [app EXCEPT !.pc = "abort",
                                                  !.log = Append(@, "std::invalid_argument")]
                          ELSE app' = [app EXCEPT !.pc = "connect"]
          ELSE IF stringcasecompare(app.cmd, "slice") = 0
                  THEN app' = [app EXCEPT !.communication_ = "CommandLine", !.pc = "check"]
          ELSE IF stringcasecompare(app.cmd, "help") = 0
                  THEN app' = [app EXCEPT !.log = Append(@, "printHelp"), !.pc = "check"]
          ELSE app' = [app EXCEPT !.log = Append(@, "printHelp"),
                                  !.pc = "exit", !.status = 1]
    /\ UNCHANGED <<plugin_, alive, attempts, validations, lastBind, inv, prog, layers>>

\* Application::connect: one turn of the loop over the options.
ConnectOption(hw) ==
    /\ app.pc = "connect"
    /\ app.opts # <<>>
    /\ LET o == Head(app.opts)
           rest == [app EXCEPT !.opts = Tail(@)]
       IN  IF o.flag = "m"
              THEN app' = [startThreadPool(rest, o.n, hw, "startThreadPool(n_threads)")
                             EXCEPT !.chosen = IF o.n > 0 THEN o.n ELSE @]
              ELSE app' = rest
    /\ UNCHANGED <<plugin_, alive, attempts, validations, lastBind, inv, prog, layers>>

\* Application::connect after the options: the ArcusCommunication is made.
ConnectFinish ==
    /\ app.pc = "connect"
    /\ app.opts = <<>>
    /\ app' = [app EXCEPT !.communication_ = "ArcusCommunication", !.pc = "check"]
    /\ UNCHANGED <<plugin_, alive, attempts, validations, lastBind, inv, prog, layers>>

\* Mutant of RunStartThreadPool: no exit without a communication channel.
RunStartThreadPoolNoExit(hw) ==
    /\ app.pc = "check"
    /\ app' = [startThreadPool(app, DefaultWorkers, hw, "startThreadPool()")
                 EXCEPT !.pc = "loop"]
    /\ UNCHANGED <<plugin_, alive, attempts, validations, lastBind, inv, prog, layers>>

\* Application::run: exit(0) without a communication channel, else
\* startThreadPool().
RunStartThreadPool(hw) ==
    /\ app.pc = "check"
    /\ IF app.communication_ = "nullptr"
          THEN app' = [app EXCEPT !.pc = "exit", !.status = 0]
          ELSE app' = [startThreadPool(app, DefaultWorkers, hw, "startThreadPool()")
                         EXCEPT !.pc = "loop"]
    /\ UNCHANGED <<plugin_, alive, attempts, validations, lastBind, inv, prog, layers>>

Sliced(a) == Cardinality({i \in 1 .. Len(a.log) : a.log[i] = "sliceNext"})

\* Application::run: communication_->hasSlice() answers more; run returns
\* when it answers false.
RunHasSlice(more) ==
    /\ app.pc = "loop"
    /\ more => Sliced(app) < MaxSlices
    /\ IF more
          THEN app' = [app EXCEPT !.log = Append(@, "hasSlice:true"), !.pc = "slice"]
          ELSE app' = [app EXCEPT !.log = Append(@, "hasSlice:false"), !.pc = "return"]
    /\ UNCHANGED <<plugin_, alive, attempts, validations, lastBind, inv, prog, layers>>

\* Application::run: communication_->sliceNext()
RunSliceNext ==
    /\ app.pc = "slice"
    /\ app' = [app EXCEPT !.log = Append(@, "sliceNext"), !.pc = "loop"]
    /\ UNCHANGED <<plugin_, alive, attempts, validations, lastBind, inv, prog, layers>>

----------------------------------------------------------------------------
(* SlotProxy *)

\* Mutant of SlotProxyCtor: the client is kept although its construction failed.
SlotProxyCtorSwallow(ch, al, id) ==
    LET p == PluginProxyCtor(ch, al, id)
    IN  [ok |-> TRUE, plugin |-> {p.client}, runs |-> p.runs]

\* SlotProxy(std::shared_ptr<grpc::Channel> channel) : plugin_{ std::move(channel) }
\* The member is constructed in place from the channel; an exception of the
\* PluginProxy constructor leaves the constructor through the initializer.
SlotProxyCtor(ch, al, id) ==
    LET p == PluginProxyCtor(ch, al, id)
    IN  [ok |-> p.ok,
         plugin |-> IF p.ok THEN {p.client} ELSE {},
         runs |-> p.runs]

\* A thread that is not inside operator().  The fields after arg record what
\* the call observed: start is the number of bind attempts and since the last
\* change of the binding when the call began, seen is the optional read by
\* has_value(), ref the one read by value(), served the client the call ran
\* on, swapped tells that the optional was replaced between two reads of this
\* call.
Idle == [pc |-> "idle", arg |-> "none", start |-> 0, since |-> "none",
         seen |-> {}, ref |-> {}, served |-> {}, ranDefault |-> FALSE,
         transport |-> "none", swapped |-> FALSE, result |-> NoResult]

\* op/chan/status: the last bind or unbind and what its caller was told;
\* had: a binding existed when it ran; swap: the last operation that changed
\* the binding.
NoBind == [op |-> "none", chan |-> "none", status |-> "none", had |-> FALSE,
           swap |-> "none"]

Init ==
    /\ plugin_ = {}
    /\ alive = Channels
    /\ attempts = 0
    /\ validations = 0
    /\ lastBind = NoBind
    /\ inv = [t \in Threads |-> Idle]
    /\ prog = ProgressStatic
    /\ layers = LayersStatic
    /\ app = ApplicationCtor

\* Mutant of Bind: the new client is added next to the one already held.
BindAccumulate(ch) ==
    /\ attempts < MaxBinds
    /\ LET r == SlotProxyCtor(ch, alive, attempts + 1)
       IN  /\ attempts' = attempts + 1
           /\ validations' = validations + r.runs
           /\ plugin_' = IF r.ok THEN plugin_ \cup r.plugin ELSE plugin_
           /\ lastBind' = [op |-> "bind", chan |-> ch,
                           status |-> IF r.ok THEN "ok" ELSE "failed",
                           had |-> has_value(plugin_),
                           swap |-> IF r.ok THEN "bind" ELSE lastBind.swap]
    /\ UNCHANGED <<alive, inv>>
    /\ UNCHANGED others

\* Mutant of Bind: the exception of a failed construction is caught and the
\* caller is told the bind went well.
BindSwallow(ch) ==
    /\ attempts < MaxBinds
    /\ LET r == SlotProxyCtor(ch, alive, attempts + 1)
       IN  /\ attempts' = attempts + 1
           /\ validations' = validations + r.runs
           /\ plugin_' = IF r.ok THEN r.plugin ELSE plugin_
           /\ lastBind' = [op |-> "bind", chan |-> ch, status |-> "ok",
                           had |-> has_value(plugin_),
                           swap |-> IF r.ok THEN "bind" ELSE lastBind.swap]
    /\ UNCHANGED <<alive, inv>>
    /\ UNCHANGED others

\* bind(channel): a front-end built by the channel constructor replaces the
\* slot's front-end.  A failed construction throws to the caller before the
\* slot is touched.
Bind(ch) ==
    /\ attempts < MaxBinds
    /\ LET r == SlotProxyCtor(ch, alive, attempts + 1)
       IN  /\ attempts' = attempts + 1
           /\ validations' = validations + r.runs
           /\ plugin_' = IF r.ok THEN r.plugin ELSE plugin_
           /\ lastBind' = [op |-> "bind", chan |-> ch,
                           status |-> IF r.ok THEN "ok" ELSE "failed",
                           had |-> has_value(plugin_),
                           swap |-> IF r.ok THEN "bind" ELSE lastBind.swap]
    /\ UNCHANGED <<alive, inv>>
    /\ UNCHANGED others

\* unbind(): the slot's front-end is replaced by a default-constructed one.
Unbind ==
    /\ plugin_' = {}
    /\ lastBind' = [op |-> "unbind", chan |-> "none", status |-> "ok",
                    had |-> has_value(plugin_), swap |-> "unbind"]
    /\ UNCHANGED <<alive, attempts, validations, inv>>
    /\ UNCHANGED others

\* The plugin process behind a channel dies (channel closed).
Kill(ch) ==
    /\ ch \in alive
    /\ Cardinality(Channels \ alive) < MaxKills
    /\ alive' = alive \ {ch}
    /\ UNCHANGED <<plugin_, attempts, validations, lastBind, inv>>
    /\ UNCHANGED others

\* What operator() knows when it is entered.
Begun(a) == [Idle EXCEPT !.arg = a, !.start = attempts, !.since = lastBind.swap,
                         !.seen = plugin_]

\* Mutant of InvokeStart: the test of has_value() is inverted.
InvokeStartInverted(t, a) ==
    /\ inv[t].pc = "idle"
    /\ IF ~ has_value(plugin_)
          THEN inv' = [inv EXCEPT ![t] = [Begun(a) EXCEPT !.pc = "has_value"]]
          ELSE inv' = [inv EXCEPT ![t] = [Begun(a) EXCEPT !.pc = "done",
                                                          !.ranDefault = TRUE,
                                                          !.result = Default(a)]]
    /\ UNCHANGED <<plugin_, alive, attempts, validations, lastBind>>
    /\ UNCHANGED others

\* Mutant of InvokeStart: a slot that was unbound still dereferences the
\* optional it held.
InvokeStartStale(t, a) ==
    /\ inv[t].pc = "idle"
    /\ IF has_value(plugin_)
          THEN inv' = [inv EXCEPT ![t] = [Begun(a) EXCEPT !.pc = "has_value"]]
          ELSE IF lastBind.swap = "unbind"
                  THEN inv' = [inv EXCEPT ![t] = [Begun(a) EXCEPT !.pc = "done",
                                                                  !.result = Undefined(a)]]
                  ELSE inv' = [inv EXCEPT ![t] = [Begun(a) EXCEPT !.pc = "done",
                                                                  !.ranDefault = TRUE,
                                                                  !.result = Default(a)]]
    /\ UNCHANGED <<plugin_, alive, attempts, validations, lastBind>>
    /\ UNCHANGED others

\* operator(): if (plugin_.has_value()) ... else return std::invoke(Default, args...)
InvokeStart(t, a) ==
    /\ inv[t].pc = "idle"
    /\ IF has_value(plugin_)
          THEN inv' = [inv EXCEPT ![t] = [Begun(a) EXCEPT !.pc = "has_value"]]
          ELSE inv' = [inv EXCEPT ![t] = [Begun(a) EXCEPT !.pc = "done",
                                                          !.ranDefault = TRUE,
                                                          !.result = Default(a)]]
    /\ UNCHANGED <<plugin_, alive, attempts, validations, lastBind>>
    /\ UNCHANGED others

\* Mutant of InvokeValue: the validator is run again on every call.
InvokeValueRevalidate(t) ==
    /\ inv[t].pc = "has_value"
    /\ IF has_value(plugin_)
          THEN /\ inv' = [inv EXCEPT ![t].pc = "value", ![t].ref = plugin_,
                                     ![t].swapped = (plugin_ # inv[t].seen)]
               /\ validations' = validations + 1
          ELSE /\ inv' = [inv EXCEPT ![t].pc = "done", ![t].swapped = TRUE,
                                     ![t].result = BadOptionalAccess(inv[t].arg)]
               /\ validations' = validations
    /\ UNCHANGED <<plugin_, alive, attempts, lastBind>>
    /\ UNCHANGED others

\* operator(): plugin_.value()  -- a second read of the optional
InvokeValue(t) ==
    /\ inv[t].pc = "has_value"
    /\ IF has_value(plugin_)
          THEN inv' = [inv EXCEPT ![t].pc = "value", ![t].ref = plugin_,
                                  ![t].swapped = (plugin_ # inv[t].seen)]
          ELSE inv' = [inv EXCEPT ![t].pc = "done", ![t].swapped = TRUE,
                                  ![t].result = BadOptionalAccess(inv[t].arg)]
    /\ UNCHANGED <<plugin_, alive, attempts, validations, lastBind>>
    /\ UNCHANGED others

\* Mutant of InvokeCall: the Default callable is run although a client is held.
InvokeCallDefault(t) ==
    /\ inv[t].pc = "value"
    /\ inv' = [inv EXCEPT ![t].pc = "done", ![t].ranDefault = TRUE,
                          ![t].swapped = (inv[t].swapped \/ plugin_ # inv[t].ref),
                          ![t].result = Default(inv[t].arg)]
    /\ UNCHANGED <<plugin_, alive, attempts, validations, lastBind>>
    /\ UNCHANGED others

\* Mutant of InvokeCall: every error of the client is replaced by the result
\* of the Default callable.
InvokeCallFallback(t) ==
    /\ inv[t].pc = "value"
    /\ \E c \in inv[t].ref :
          LET r == PluginProxyCall(c, inv[t].arg, alive)
          IN  inv' = [inv EXCEPT ![t].pc = "done", ![t].served = {c},
                                 ![t].swapped = (inv[t].swapped \/ plugin_ # inv[t].ref),
                                 ![t].transport = Transport(r),
                                 ![t].ranDefault = (r.kind # "native"),
                                 ![t].result = IF r.kind = "native" THEN r
                                               ELSE Default(inv[t].arg)]
    /\ UNCHANGED <<plugin_, alive, attempts, validations, lastBind>>
    /\ UNCHANGED others

\* operator(): return std::invoke(plugin_.value(), args...)
\* The call runs on the object inside the optional.  When the optional was
\* reassigned or reset since value() returned, the reference dangles: the call
\* runs on whatever the storage holds (the old client, the new one) or does
\* not return a value.
InvokeCall(t) ==
    /\ inv[t].pc = "value"
    /\ \/ \E c \in (IF plugin_ = inv[t].ref THEN inv[t].ref ELSE inv[t].ref \cup plugin_) :
             LET r == PluginProxyCall(c, inv[t].arg, alive)
             IN  inv' = [inv EXCEPT ![t].pc = "done", ![t].served = {c},
                                    ![t].swapped = (inv[t].swapped \/ plugin_ # inv[t].ref),
                                    ![t].transport = Transport(r),
                                    ![t].result = r]
       \/ /\ plugin_ # inv[t].ref
          /\ inv' = [inv EXCEPT ![t].pc = "done", ![t].swapped = TRUE,
                                ![t].result = Undefined(inv[t].arg)]
    /\ UNCHANGED <<plugin_, alive, attempts, validations, lastBind>>
    /\ UNCHANGED others

\* The caller takes the result; the thread is free for its next call.
Return(t) ==
    /\ inv[t].pc = "done"
    /\ inv' = [inv EXCEPT ![t] = Idle]
    /\ UNCHANGED <<plugin_, alive, attempts, validations, lastBind>>
    /\ UNCHANGED others

Next ==
    \/ \E ch \in Channels : Bind(ch)
    \/ Unbind
    \/ \E ch \in Channels : Kill(ch)
    \/ \E t \in Threads, a \in Args : InvokeStart(t, a)
    \/ \E t \in Threads : InvokeValue(t)
    \/ \E t \in Threads : InvokeCall(t)
    \/ \E t \in Threads : Return(t)

Spec == Init /\ [][Next]_vars

\* One calling thread whose arguments include values the converters reject.
ConvNext ==
    \/ \E ch \in Channels : Bind(ch)
    \/ Unbind
    \/ \E ch \in Channels : Kill(ch)
    \/ \E a \in ArgsConv : InvokeStart("t1", a)
    \/ InvokeValue("t1")
    \/ InvokeCall("t1")
    \/ Return("t1")

SpecConv == Init /\ [][ConvNext]_vars

\* The progress estimate alone.
ProgressNext ==
    \/ ProgressInit
    \/ \E stage \in Stages, k \in 0 .. PSteps : CalcOverallProgress(stage, k)

SpecProgress == Init /\ [][ProgressNext]_vars

\* The per-layer progress messages alone.
LayerNext ==
    \E layer_nr \in LayerNrs, total_time \in 0 .. MaxTime,
       skip_threshold \in {DefaultSkipThreshold, MaxTime} :
        MessageProgressLayer(layer_nr, MaxLayer + 1, total_time, skip_threshold)

SpecLayer == Init /\ [][LayerNext]_vars

\* One run of the engine.
AppNext ==
    \/ \E arcus \in BOOLEAN, argc \in 1 .. 3 + MaxOpts, cmd \in Commands :
          \E opts \in OptionLists(IF stringcasecompare(cmd, "connect") = 0 /\ argc > 3
                                     THEN argc - 3 ELSE 0) :
              RunBegin(arcus, argc, cmd, opts)
    \/ \E addr \in Addresses : RunCommand(addr)
    \/ \E hw \in 0 .. MaxHw : ConnectOption(hw)
    \/ ConnectFinish
    \/ \E hw \in 0 .. MaxHw : RunStartThreadPool(hw)
    \/ \E more \in BOOLEAN : RunHasSlice(more)
    \/ RunSliceNext

SpecApp == Init /\ [][AppNext]_vars

----------------------------------------------------------------------------
(* Properties *)

Done(t) == inv[t].pc = "done"

\* C1: a call that found no bound channel returns exactly Default applied to
\* its own arguments and never runs on a Remote Call Client.
C1_UnboundReturnsDefault ==
    \A t \in Threads :
        (inv[t].pc # "idle" /\ inv[t].seen = {}) =>
            /\ Done(t)
            /\ inv[t].result = Default(inv[t].arg)
            /\ inv[t].ranDefault
            /\ inv[t].served = {}
            /\ inv[t].transport = "none"

\* C1 witness: an unbound call with argument R2 has returned Default(R2).
C1_Witness ==
    \E t \in Threads :
        /\ Done(t) /\ inv[t].seen = {} /\ inv[t].arg = "R2"
        /\ inv[t].result = Default("R2")

\* C2: a call made while the slot holds a binding with a positive cached
\* outcome, and during which the binding is not replaced, is forwarded to
\* that client with the same arguments and does not run Default; when the
\* remote call succeeds the caller gets the remote result.
C2_ValidBindingForwards ==
    \A t \in Threads :
        (Done(t) /\ inv[t].seen # {} /\ ~ inv[t].swapped /\ value(inv[t].seen).valid) =>
            /\ inv[t].served = inv[t].seen
            /\ ~ inv[t].ranDefault
            /\ inv[t].transport # "none"
            /\ inv[t].transport = "ok" =>
                   inv[t].result = Remote(value(inv[t].seen).chan, inv[t].arg)

\* C2 witness: a call forwarded to the client bound to channel C has returned
\* the remote result for its argument.
C2_Witness ==
    \E t \in Threads :
        /\ Done(t) /\ inv[t].seen # {} /\ ~ inv[t].swapped
        /\ inv[t].transport = "ok"
        /\ inv[t].result = Remote("C", inv[t].arg)

\* A step that is a bind attempt.
BindStep == attempts' = attempts + 1

\* C3: a bind attempt on a channel the validator rejects leaves the optional
\* as it was (empty stays empty, a held client stays the same client), and no
\* client with a negative outcome is ever held.
C3_RejectedBindChangesNothing ==
    [][ /\ (BindStep /\ ~ Validate(lastBind'.chan, alive)) => plugin_' = plugin_
        /\ \A c \in plugin_' : c.valid ]_vars

\* C3 witness: the incompatible plugin behind Cold is alive and was rejected
\* while a client was held; a call begun after that attempt was served by the
\* client held before it.
C3_Witness ==
    /\ lastBind.op = "bind" /\ lastBind.status = "failed"
    /\ lastBind.chan = "Cold" /\ "Cold" \in alive /\ lastBind.had
    /\ \E t \in Threads :
        /\ Done(t) /\ inv[t].start = attempts
        /\ inv[t].served = plugin_ /\ plugin_ # {}
        /\ value(plugin_).id < attempts

\* C4: a call that hits a transport failure, on a binding that was not
\* replaced during the call, returns Default applied to its arguments.
C4_TransportFailureReturnsDefault ==
    \A t \in Threads :
        (Done(t) /\ inv[t].transport = "failed" /\ ~ inv[t].swapped) =>
            inv[t].result = Default(inv[t].arg)

\* C5: every call runs against one binding state: what value() returned and
\* what the call ran on are the optional that has_value() saw.
C5_NoTornBinding ==
    \A t \in Threads :
        inv[t].pc # "idle" =>
            /\ inv[t].ref # {} => inv[t].ref = inv[t].seen
            /\ inv[t].served # {} => inv[t].served = inv[t].seen
            /\ inv[t].result.kind \notin {"bad_optional_access", "undefined"}

C7_ValidatorOncePerBind ==
    /\ validations = attempts
    /\ \A t \in Threads :
           (Done(t) /\ inv[t].seen # {} /\ ~ inv[t].swapped) =>
               /\ value(inv[t].seen).valid
               /\ inv[t].served = inv[t].seen

\* C7 witness: after two bind attempts a call was forwarded to a client whose
\* plugin would no longer pass the validator.
C7_Witness ==
    /\ attempts = 2 /\ validations = 2
    /\ \E t \in Threads :
        /\ Done(t) /\ inv[t].seen # {} /\ ~ inv[t].swapped
        /\ ~ Validate(value(inv[t].seen).chan, alive)
        /\ inv[t].served = inv[t].seen

\* C8: a call that begins while the last change of the binding is an unbind
\* returns Default applied to its arguments and runs on no client.
C8_UnbindRevertsToDefault ==
    \A t \in Threads :
        (inv[t].pc # "idle" /\ inv[t].since = "unbind") =>
            /\ Done(t)
            /\ inv[t].result = Default(inv[t].arg)
            /\ inv[t].served = {}
            /\ inv[t].transport = "none"

\* C8 witness: a client was held, unbind removed it, and a call begun after
\* that returned Default.
C8_Witness ==
    /\ lastBind.op = "unbind" /\ lastBind.had
    /\ \E t \in Threads :
        /\ Done(t) /\ inv[t].since = "unbind" /\ inv[t].start = attempts
        /\ inv[t].start >= 1
        /\ inv[t].result = Default(inv[t].arg)

\* C9: the caller of bind is told "failed" exactly when the channel is
\* unreachable or rejected; after a failure the slot holds what it held
\* before, after a success it holds the client of the requested channel.
C9_BindFailureReported ==
    lastBind.op = "bind" =>
        /\ lastBind.status \in {"ok", "failed"}
        /\ lastBind.status = "failed" =>
               /\ ~ Validate(lastBind.chan, alive)
               /\ has_value(plugin_) = lastBind.had
               /\ \A c \in plugin_ : c.id < attempts
        /\ lastBind.status = "ok" =>
               /\ plugin_ # {}
               /\ value(plugin_).chan = lastBind.chan
               /\ value(plugin_).id = attempts
               /\ value(plugin_).valid

\* C9 witness: a bind to the compatible but unreachable channel C failed
\* while a client was held.
C9_Witness ==
    /\ lastBind.op = "bind" /\ lastBind.status = "failed"
    /\ lastBind.chan = "C" /\ "C" \notin alive
    /\ lastBind.had /\ plugin_ # {}

\* C10: a call in flight when the binding is swapped completes against the
\* binding it began with, and no call is served by a binding older than the
\* one held when it began.
C10_InFlightCompletesOnOldBinding ==
    \A t \in Threads :
        Done(t) =>
            /\ inv[t].seen # {} => inv[t].served = inv[t].seen
            /\ \A c \in inv[t].served : c \in inv[t].seen \/ c.id > inv[t].start

\* The remote response a finished call got: the channel it ran on and whether
\* the exchange went through; "none" when the call ran on no client.
Response(t) ==
    IF inv[t].served = {} THEN <<"none", inv[t].transport>>
    ELSE <<value(inv[t].served).chan, inv[t].transport>>

\* C11: two finished calls, begun at different points of the slot's history,
\* that agree on whether a binding was held, on the arguments and on the
\* remote response, return the same result (the binding not being replaced
\* during either call).
C11_ResultDependsOnBindingAndArgs ==
    \A t, u \in Threads :
        ( /\ Done(t) /\ Done(u)
          /\ ~ inv[t].swapped /\ ~ inv[u].swapped
          /\ has_value(inv[t].seen) = has_value(inv[u].seen)
          /\ inv[t].arg = inv[u].arg
          /\ Response(t) = Response(u) )
        => /\ inv[t].result = inv[u].result
           /\ inv[t].ranDefault = inv[u].ranDefault

\* C11 witness: one call began before any bind, the other after a bind, an
\* unbind and a failed bind; both found the slot unbound and returned the
\* same Default result.
C11_Witness ==
    /\ inv["t1"].pc = "done" /\ inv["t2"].pc = "done"
    /\ inv["t1"].arg = inv["t2"].arg
    /\ inv["t1"].seen = {} /\ inv["t2"].seen = {}
    /\ inv["t1"].since = "none" /\ inv["t1"].start = 0
    /\ inv["t2"].since = "unbind" /\ inv["t2"].start = 2
    /\ lastBind.status = "failed"
    /\ inv["t1"].result = inv["t2"].result

\* C13: a call on a held binding whose arguments have no wire form, or whose
\* response has no native form, ends with the conversion error: Default is
\* not run and its result is not returned; every finished call carries a
\* whole result for its own arguments.
C13_ConversionErrorPropagates ==
    \A t \in Threads :
        Done(t) =>
            /\ (inv[t].seen # {} /\ ~ inv[t].swapped /\ ~ Representable(inv[t].arg)) =>
                   /\ inv[t].result = ConversionError(inv[t].arg)
                   /\ ~ inv[t].ranDefault
            /\ (inv[t].seen # {} /\ ~ inv[t].swapped /\ ~ Decodable(inv[t].arg)
                    /\ inv[t].transport # "failed") =>
                   /\ inv[t].result = ConversionError(inv[t].arg)
                   /\ ~ inv[t].ranDefault
            /\ inv[t].result.kind # "none"
            /\ inv[t].result.arg = inv[t].arg

\* C13 witness: a response that could not be decoded has ended a call on the
\* held client with the conversion error.
C13_Witness ==
    /\ Done("t1") /\ inv["t1"].arg = "Rnodecode"
    /\ inv["t1"].seen # {} /\ inv["t1"].served = inv["t1"].seen
    /\ ~ inv["t1"].swapped
    /\ inv["t1"].result = ConversionError("Rnodecode")

\* The sum of times[1 .. n].
RECURSIVE SumTimes(_)
SumTimes(n) == IF n = 0 THEN 0 ELSE SumTimes(n - 1) + times[n]

\* The order in which the slicing process passes through estimates.
NotLater(a, b) == a.stage < b.stage \/ (a.stage = b.stage /\ a.k <= b.k)

\* C14: after init() every element of accumulated_times is the sum of the
\* times of the earlier stages and total_timing the sum of all; an estimate
\* for a stage and 0 <= stage_progress <= 1 lies between 0 and 1, and of two
\* estimates the one for the later stage, or the larger stage_progress within
\* a stage, is not the smaller.
C14_OverallProgressBoundedMonotone ==
    prog.inited =>
        /\ \A s \in Stages : prog.accumulated_times[s + 1] = SumTimes(s)
        /\ prog.total_timing = SumTimes(N_PROGRESS_STAGES)
        /\ prog.last.valid =>
               /\ prog.last.den > 0
               /\ 0 <= prog.last.num /\ prog.last.num <= prog.last.den
        /\ (prog.prev.valid /\ prog.last.valid /\ NotLater(prog.prev, prog.last)) =>
               /\ prog.prev.den = prog.last.den
               /\ prog.prev.num <= prog.last.num

\* C14 witness: after init() an estimate for the end of FINISH (exactly 1)
\* follows one for the middle of EXPORT.
C14_Witness ==
    /\ prog.inited
    /\ prog.prev.valid /\ prog.prev.stage = 5 /\ prog.prev.k = 2
    /\ prog.last.valid /\ prog.last.stage = 6 /\ prog.last.k = PSteps
    /\ prog.last.num = prog.last.den
    /\ prog.prev.num < prog.last.num

\* The first call of the unbroken run of skipped calls that ends h.
RECURSIVE RunStart(_, _)
RunStart(h, i) == IF i > 1 /\ h[i - 1].skipped THEN RunStart(h, i - 1) ELSE i

\* The calls of h that ended a run of skipped calls.
RunEnds(h) == {i \in 2 .. Len(h) : ~ h[i].skipped /\ h[i - 1].skipped}

HasEvent(e) == \E i \in 1 .. Len(app.log) : app.log[i] = e

FirstEvent(e) == CHOOSE i \in 1 .. Len(app.log) :
                     app.log[i] = e /\ \A j \in 1 .. i - 1 : app.log[j] # e

\* The command this build takes argv[1] for.
IsConnect == app.arcus /\ Lower(app.cmd) = "connect"

IsSlice == ~ IsConnect /\ Lower(app.cmd) = "slice"

IsHelp == ~ IsConnect /\ Lower(app.cmd) = "help"

\* C16: run with fewer than 2 arguments or an unknown command ends in
\* exit(1), with "help" in exit(0), each time with no thread pool started
\* and no sliceNext; run exits in no other case; the slicing loop is reached
\* only with the communication channel that slice or connect made, after
\* Progress::init and startThreadPool(); every sliceNext follows a
\* hasSlice() that returned true, and run returns on the first hasSlice()
\* that returned false.
C16_RunReachesLoopOnlyWithChannel ==
    LET quit1 == app.pc # "main" /\ (app.argc_ < 2 \/ ~ (IsConnect \/ IsSlice \/ IsHelp))
        quit0 == app.pc # "main" /\ app.argc_ >= 2 /\ IsHelp
    IN  /\ quit1 => /\ app.pc \in {"command", "exit"}
                    /\ app.pc = "exit" => app.status = 1
        /\ quit0 => /\ app.pc \in {"command", "check", "exit"}
                    /\ app.pc = "exit" => app.status = 0
        /\ (quit1 \/ quit0) =>
               /\ app.pools = {} /\ ~ app.lastStart.called
               /\ \A i \in 1 .. Len(app.log) :
                      app.log[i] \in {"printLicense", "Progress::init", "printHelp"}
        /\ app.pc = "exit" => (quit1 \/ quit0)
        /\ app.pc \in {"loop", "slice", "return"} =>
               /\ prog.inited
               /\ \/ IsSlice /\ app.communication_ = "CommandLine"
                  \/ IsConnect /\ app.communication_ = "ArcusCommunication"
               /\ HasEvent("startThreadPool()")
               /\ FirstEvent("Progress::init") < FirstEvent("startThreadPool()")
               /\ app.pools # {}
        /\ \A i \in 1 .. Len(app.log) :
               /\ app.log[i] = "sliceNext" =>
                      /\ i > 1 /\ app.log[i - 1] = "hasSlice:true"
                      /\ FirstEvent("startThreadPool()") < i
               /\ app.log[i] = "hasSlice:false" => i = Len(app.log)
        /\ app.pc = "return" <=> HasEvent("hasSlice:false")

\* C16 witness: a run of "connect" that sliced twice and returned.
C16_Witness ==
    /\ app.pc = "return"
    /\ IsConnect
    /\ Sliced(app) = 2
    /\ app.log[Len(app.log)] = "hasSlice:false"

\* C17: at most one pool exists and thread_pool_ points to it; the last
\* startThreadPool call left the pools as they were when a pool existed and
\* nworkers <= 0 or the pool had nworkers - 1 threads, and otherwise deleted
\* the old pool and created exactly one new one; in the slicing loop the
\* pool has the thread count of the last positive -m option.
C17_PoolKeptOrReplaced ==
    /\ Cardinality(app.pools) <= 1
    /\ \A p \in app.pools : p.id = app.thread_pool_
    /\ app.thread_pool_ # 0 => app.pools # {}
    /\ app.lastStart.called =>
           LET L == app.lastStart
               had == L.pointer # 0
               keep == had /\ \/ L.nworkers <= 0
                              \/ \E p \in L.before :
                                     p.id = L.pointer /\ p.thread_count = Unsigned(L.nworkers - 1)
           IN  IF keep
                  THEN app.pools = L.before /\ app.thread_pool_ = L.pointer
                  ELSE /\ app.pools \cap L.before = {}
                       /\ app.thread_pool_ # L.pointer
                       /\ Cardinality(app.pools) = 1
                       /\ L.nworkers > 0 => thread_count(app) = Unsigned(L.nworkers - 1)
    /\ (app.chosen > 0 /\ app.pc \in {"loop", "slice", "return"}) =>
           thread_count(app) = Unsigned(app.chosen - 1)

\* C17 witness: -m1 made a pool, -m2 replaced it, and the default call in
\* run kept the pool of one thread.
C17_Witness ==
    /\ app.pc = "loop"
    /\ app.created = 2
    /\ app.chosen = 2
    /\ app.lastStart.nworkers = DefaultWorkers
    /\ app.lastStart.before = app.pools
    /\ thread_count(app) = Unsigned(1)

\* C18: a pool that startThreadPool created has nworkers - 1 threads for
\* nworkers > 0, and else hardware_concurrency() - 1 threads, a count
\* smaller than the hardware concurrency.
C18_ThreadCountLeavesMainThread ==
    (app.lastStart.called /\ app.thread_pool_ # app.lastStart.pointer) =>
        IF app.lastStart.nworkers > 0
           THEN thread_count(app) = Unsigned(app.lastStart.nworkers - 1)
           ELSE /\ thread_count(app) = UnsignedMinusOne(Unsigned(app.lastStart.hw))
                /\ ULess(thread_count(app), Unsigned(app.lastStart.hw))

====
